---- MODULE Spec2Model ----
(***************************************************************************)
(* Quickselect on a non-empty mutable slice (crate alg_quickselect).       *)
(*                                                                         *)
(* The backing storage of the slice is the sequence arr (1-based here,     *)
(* 0-based in the source).  The slice `s` the loop narrows is the window   *)
(* arr[lo+1 .. lo+slen]; the source's index x of `s` is slot lo+x+1.       *)
(* One action per program position of quickselect / quickselect_unchecked  *)
(* and of partition_unchecked, so that every swap is a state.              *)
(***************************************************************************)
EXTENDS Integers, Sequences, FiniteSets

VARIABLES
    arr,          \* the storage behind the slice passed by the caller
    lo,           \* offset of the current slice `s` in arr
    slen,         \* s.len().get()
    k,            \* the rank, relative to the current slice
    pivot_index,  \* the index returned by get_pivot (lib.rs:89)
    last_index,   \* partition_unchecked: last_index
    i,            \* partition_unchecked: write cursor i
    j,            \* partition_unchecked: scan cursor j
    settled,      \* the index returned by partition_unchecked (lib.rs:97)
    pc,           \* program position
    err,          \* the panic, once raised
    ret,          \* slot of arr the returned reference designates
    s0,           \* input: the slice on entry
    k0,           \* input: the rank on entry
    get_pivot,    \* input: the pivot strategy
    variant,      \* input: which entry point is called
    debug,        \* input: built with debug assertions
    lens,         \* history: length of the slice given to each get_pivot call
    iter0,        \* history: arr when the current iteration began
    strayed       \* history: get_pivot has returned an index outside its slice

vars == <<arr, lo, slen, k, pivot_index, last_index, i, j, settled, pc, err,
          ret, s0, k0, get_pivot, variant, debug, lens, iter0, strayed>>

----------------------------------------------------------------------------
(* Bounds of the model *)

MaxLen == 3      \* longest enumerated slice
MaxVal == 3      \* element values are 1..MaxVal
KOver == 1       \* ranks go up to len - 1 + KOver + 1
PivotOver == 1   \* a faulty strategy answers up to len + PivotOver

Values == 1..MaxVal

Range(f) == {f[x] : x \in DOMAIN f}

Slices == UNION {[1..m -> Values] : m \in 1..MaxLen}

----------------------------------------------------------------------------
(* Pivot strategies: src/src/get_pivot/mod.rs *)

\* variant: rounds the middle up
middle_index_up(len) == {(len + 1) \div 2}

middle_index(len) == {len \div 2}

first_index(len) == {0}

last_index_of(len) == {len - 1}

\* the `random` example: rng.gen_range(0..s.len().get())
random(len) == 0..(len - 1)

\* a strategy that breaks the postcondition "the output index is valid"
faulty(len) == 0..(len + PivotOver)

Strategies == {"middle_index", "first_index", "last_index", "random", "faulty"}

GetPivot(name, len) ==
    CASE name = "middle_index" -> middle_index(len)
      [] name = "first_index" -> first_index(len)
      [] name = "last_index" -> last_index_of(len)
      [] name = "random" -> random(len)
      [] name = "faulty" -> faulty(len)

----------------------------------------------------------------------------
(* The slice primitives *)

\* s[x] of the current slice
At(a, off, x) == a[off + x + 1]

\* variant: the second store reads the slot the first one overwrote
swap_overwriting(a, off, x, y) ==
    [a EXCEPT ![off + x + 1] = a[off + y + 1]]

\* s.swap_unchecked(x, y) on the slice at offset off
swap_unchecked(a, off, x, y) ==
    [a EXCEPT ![off + x + 1] = a[off + y + 1], ![off + y + 1] = a[off + x + 1]]

\* what a build may leave in the storage once behaviour is undefined: the
\* storage as it was (the process is killed), or some value written into any
\* one slot by the access outside the slice; the call is followed no further
Havoc(a) == {a} \cup {[a EXCEPT ![x] = v] : x \in DOMAIN a, v \in Values}

NoErr == [kind |-> "none", len |-> 0, idx |-> 0]

----------------------------------------------------------------------------
(* Calls *)

Calls ==
    {[s |-> s, k |-> kk, get_pivot |-> g, variant |-> v, debug |-> d] :
        s \in Slices, kk \in 0..(MaxLen + KOver), g \in Strategies,
        v \in {"quickselect", "quickselect_unchecked"}, d \in BOOLEAN}

\* the doctest of quickselect (lib.rs:64-74) and main (main.rs:3-10)
DocCalls ==
    {[s |-> <<4, 2, 5, 1, 3>>, k |-> 2, get_pivot |-> "middle_index",
      variant |-> "quickselect", debug |-> TRUE],
     [s |-> <<1, 2, 3>>, k |-> 1, get_pivot |-> "middle_index",
      variant |-> "quickselect_unchecked", debug |-> TRUE]}

Init ==
    \E c \in {x \in Calls : x.k <= Len(x.s) + KOver} \cup DocCalls :
        /\ arr = c.s
        /\ s0 = c.s
        /\ k = c.k
        /\ k0 = c.k
        /\ get_pivot = c.get_pivot
        /\ variant = c.variant
        /\ debug = c.debug
        /\ lo = 0
        /\ slen = Len(c.s)
        /\ pivot_index = 0
        /\ last_index = 0
        /\ i = 0
        /\ j = 0
        /\ settled = 0
        /\ pc = "entry"
        /\ err = NoErr
        /\ ret = 0
        /\ lens = <<>>
        /\ iter0 = c.s
        /\ strayed = FALSE

----------------------------------------------------------------------------
(* quickselect, lib.rs:80-86; quickselect_unchecked, lib.rs:141 *)

\* variant: the rank is compared with > rather than >=
Entry_off_by_one ==
    /\ pc = "entry"
    /\ IF variant = "quickselect"
       THEN IF k > slen
            THEN /\ pc' = "panic"
                 /\ err' = [kind |-> "index out of bounds", len |-> slen, idx |-> k]
            ELSE /\ pc' = "get_pivot"
                 /\ err' = err
       ELSE IF debug /\ ~(k < slen)
            THEN /\ pc' = "panic"
                 /\ err' = [kind |-> "debug_assert", len |-> slen, idx |-> k]
            ELSE /\ pc' = "get_pivot"
                 /\ err' = err
    /\ UNCHANGED <<arr, lo, slen, k, pivot_index, last_index, i, j, settled,
                   ret, s0, k0, get_pivot, variant, debug, lens, iter0, strayed>>

Entry ==
    /\ pc = "entry"
    /\ IF variant = "quickselect"
       THEN IF k >= slen
            THEN /\ pc' = "panic"
                 /\ err' = [kind |-> "index out of bounds", len |-> slen, idx |-> k]
            ELSE /\ pc' = "get_pivot"
                 /\ err' = err
       ELSE IF debug /\ ~(k < slen)
            THEN /\ pc' = "panic"
                 /\ err' = [kind |-> "debug_assert", len |-> slen, idx |-> k]
            ELSE /\ pc' = "get_pivot"
                 /\ err' = err
    /\ UNCHANGED <<arr, lo, slen, k, pivot_index, last_index, i, j, settled,
                   ret, s0, k0, get_pivot, variant, debug, lens, iter0, strayed>>

(* let pivot_index = get_pivot(s); lib.rs:89, lib.rs:144 *)
CallGetPivot ==
    /\ pc = "get_pivot"
    /\ \E p \in GetPivot(get_pivot, slen) :
          /\ pivot_index' = p
          /\ strayed' = (strayed \/ p >= slen)
    /\ lens' = Append(lens, slen)
    /\ iter0' = arr
    /\ pc' = "check_pivot"
    /\ UNCHANGED <<arr, lo, slen, k, last_index, i, j, settled, err, ret,
                   s0, k0, get_pivot, variant, debug>>

\* variant: the pivot index is compared with > rather than >=
CheckPivot_off_by_one ==
    /\ pc = "check_pivot"
    /\ IF variant = "quickselect"
       THEN IF pivot_index > slen
            THEN /\ pc' = "panic"
                 /\ err' = [kind |-> "invalid pivot", len |-> slen, idx |-> pivot_index]
            ELSE /\ pc' = "partition"
                 /\ err' = err
       ELSE IF debug /\ ~(pivot_index < slen)
            THEN /\ pc' = "panic"
                 /\ err' = [kind |-> "debug_assert", len |-> slen, idx |-> pivot_index]
            ELSE /\ pc' = "partition"
                 /\ err' = err
    /\ UNCHANGED <<arr, lo, slen, k, pivot_index, last_index, i, j, settled,
                   ret, s0, k0, get_pivot, variant, debug, lens, iter0, strayed>>

(* lib.rs:90-96; lib.rs:145 *)
CheckPivot ==
    /\ pc = "check_pivot"
    /\ IF variant = "quickselect"
       THEN IF pivot_index >= slen
            THEN /\ pc' = "panic"
                 /\ err' = [kind |-> "invalid pivot", len |-> slen, idx |-> pivot_index]
            ELSE /\ pc' = "partition"
                 /\ err' = err
       ELSE IF debug /\ ~(pivot_index < slen)
            THEN /\ pc' = "panic"
                 /\ err' = [kind |-> "debug_assert", len |-> slen, idx |-> pivot_index]
            ELSE /\ pc' = "partition"
                 /\ err' = err
    /\ UNCHANGED <<arr, lo, slen, k, pivot_index, last_index, i, j, settled,
                   ret, s0, k0, get_pivot, variant, debug, lens, iter0, strayed>>

----------------------------------------------------------------------------
(* partition_unchecked, lib.rs:31-46 *)

\* variant: the pivot is not moved to the last slot
PartitionBegin_no_swap ==
    /\ pc = "partition"
    /\ IF pivot_index < slen
       THEN /\ last_index' = slen - 1
            /\ arr' = arr
            /\ i' = 0
            /\ j' = 0
            /\ pc' = "scan"
            /\ err' = err
       ELSE IF debug
            THEN /\ pc' = "panic"
                 /\ err' = [kind |-> "debug_assert", len |-> slen, idx |-> pivot_index]
                 /\ UNCHANGED <<arr, last_index, i, j>>
            ELSE /\ pc' = "ub"
                 /\ arr' \in Havoc(arr)
                 /\ UNCHANGED <<err, last_index, i, j>>
    /\ UNCHANGED <<lo, slen, k, pivot_index, settled, ret, s0, k0, get_pivot,
                   variant, debug, lens, iter0, strayed>>

\* lib.rs:32-37: the debug assertion, the swap of the pivot to the last slot
PartitionBegin ==
    /\ pc = "partition"
    /\ IF pivot_index < slen
       THEN /\ last_index' = slen - 1
            /\ arr' = swap_unchecked(arr, lo, pivot_index, slen - 1)
            /\ i' = 0
            /\ j' = 0
            /\ pc' = "scan"
            /\ err' = err
       ELSE IF debug
            THEN /\ pc' = "panic"
                 /\ err' = [kind |-> "debug_assert", len |-> slen, idx |-> pivot_index]
                 /\ UNCHANGED <<arr, last_index, i, j>>
            ELSE \* swap_unchecked out of bounds: undefined behaviour
                 /\ pc' = "ub"
                 /\ arr' \in Havoc(arr)
                 /\ UNCHANGED <<err, last_index, i, j>>
    /\ UNCHANGED <<lo, slen, k, pivot_index, settled, ret, s0, k0, get_pivot,
                   variant, debug, lens, iter0, strayed>>

\* variant: the comparison with the pivot is reversed
PartitionScan_reversed ==
    /\ pc = "scan"
    /\ j < last_index
    /\ IF At(arr, lo, j) >= At(arr, lo, last_index)
       THEN /\ arr' = swap_unchecked(arr, lo, i, j)
            /\ i' = i + 1
       ELSE /\ arr' = arr
            /\ i' = i
    /\ j' = j + 1
    /\ UNCHANGED <<lo, slen, k, pivot_index, last_index, settled, pc, err, ret,
                   s0, k0, get_pivot, variant, debug, lens, iter0, strayed>>

\* lib.rs:38-43: one turn of `for j in 0..last_index`
PartitionScan ==
    /\ pc = "scan"
    /\ j < last_index
    /\ IF At(arr, lo, j) <= At(arr, lo, last_index)
       THEN /\ arr' = swap_unchecked(arr, lo, i, j)
            /\ i' = i + 1
       ELSE /\ arr' = arr
            /\ i' = i
    /\ j' = j + 1
    /\ UNCHANGED <<lo, slen, k, pivot_index, last_index, settled, pc, err, ret,
                   s0, k0, get_pivot, variant, debug, lens, iter0, strayed>>

\* variant: the pivot is left in the last slot
PartitionEnd_no_swap ==
    /\ pc = "scan"
    /\ ~(j < last_index)
    /\ arr' = arr
    /\ settled' = i
    /\ pc' = "match"
    /\ UNCHANGED <<lo, slen, k, pivot_index, last_index, i, j, err, ret,
                   s0, k0, get_pivot, variant, debug, lens, iter0, strayed>>

\* lib.rs:44-45: the pivot goes to slot i, which is returned
PartitionEnd ==
    /\ pc = "scan"
    /\ ~(j < last_index)
    /\ arr' = swap_unchecked(arr, lo, i, last_index)
    /\ settled' = i
    /\ pc' = "match"
    /\ UNCHANGED <<lo, slen, k, pivot_index, last_index, i, j, err, ret,
                   s0, k0, get_pivot, variant, debug, lens, iter0, strayed>>

----------------------------------------------------------------------------
(* match pivot_index.cmp(&k), lib.rs:101-124 and lib.rs:149-164 *)

Cmp(a, b) == IF a = b THEN "Equal" ELSE IF a < b THEN "Less" ELSE "Greater"

\* NonEmptySlice::new_mut_unchecked(&mut s[from..from + len])
Narrow(from, len, newk) ==
    IF len = 0
    THEN \* a NonEmptySlice of length 0: undefined behaviour
         /\ pc' = "ub"
         /\ arr' \in Havoc(arr)
         /\ UNCHANGED <<lo, slen, k>>
    ELSE /\ lo' = lo + from
         /\ slen' = len
         /\ k' = newk
         /\ pc' = "get_pivot"
         /\ arr' = arr

MatchEqual ==
    /\ pc = "match"
    /\ Cmp(settled, k) = "Equal"
    /\ ret' = lo + k
    /\ pc' = "done"
    /\ UNCHANGED <<arr, lo, slen, k, pivot_index, last_index, i, j, settled,
                   err, s0, k0, get_pivot, variant, debug, lens, iter0, strayed>>

\* variant: k -= pivot_index
MatchLess_rank_off_by_one ==
    /\ pc = "match"
    /\ Cmp(settled, k) = "Less"
    /\ IF variant = "quickselect_unchecked" /\ debug
          /\ ~(k < slen /\ k - (settled + 1) < slen - 1 /\ settled + 1 < slen)
       THEN /\ pc' = "panic"
            /\ err' = [kind |-> "debug_assert", len |-> slen, idx |-> k]
            /\ UNCHANGED <<arr, lo, slen, k>>
       ELSE /\ Narrow(settled + 1, slen - (settled + 1), k - settled)
            /\ err' = err
    /\ UNCHANGED <<pivot_index, last_index, i, j, settled, ret, s0, k0,
                   get_pivot, variant, debug, lens, iter0, strayed>>

\* variant: k is not rebased
MatchLess_rank_kept ==
    /\ pc = "match"
    /\ Cmp(settled, k) = "Less"
    /\ IF variant = "quickselect_unchecked" /\ debug
          /\ ~(k < slen /\ k - (settled + 1) < slen - 1 /\ settled + 1 < slen)
       THEN /\ pc' = "panic"
            /\ err' = [kind |-> "debug_assert", len |-> slen, idx |-> k]
            /\ UNCHANGED <<arr, lo, slen, k>>
       ELSE /\ Narrow(settled + 1, slen - (settled + 1), k)
            /\ err' = err
    /\ UNCHANGED <<pivot_index, last_index, i, j, settled, ret, s0, k0,
                   get_pivot, variant, debug, lens, iter0, strayed>>

MatchLess ==
    /\ pc = "match"
    /\ Cmp(settled, k) = "Less"
    /\ IF variant = "quickselect_unchecked" /\ debug
          /\ ~(k < slen /\ k - (settled + 1) < slen - 1 /\ settled + 1 < slen)
       THEN /\ pc' = "panic"
            /\ err' = [kind |-> "debug_assert", len |-> slen, idx |-> k]
            /\ UNCHANGED <<arr, lo, slen, k>>
       ELSE /\ Narrow(settled + 1, slen - (settled + 1), k - (settled + 1))
            /\ err' = err
    /\ UNCHANGED <<pivot_index, last_index, i, j, settled, ret, s0, k0,
                   get_pivot, variant, debug, lens, iter0, strayed>>

\* variant: the new slice is s[..=pivot_index]
MatchGreater_keeps_pivot ==
    /\ pc = "match"
    /\ Cmp(settled, k) = "Greater"
    /\ IF variant = "quickselect_unchecked" /\ debug
          /\ ~(settled < slen /\ settled > 0)
       THEN /\ pc' = "panic"
            /\ err' = [kind |-> "debug_assert", len |-> slen, idx |-> settled]
            /\ UNCHANGED <<arr, lo, slen, k>>
       ELSE /\ Narrow(0, settled + 1, k)
            /\ err' = err
    /\ UNCHANGED <<pivot_index, last_index, i, j, settled, ret, s0, k0,
                   get_pivot, variant, debug, lens, iter0, strayed>>

MatchGreater ==
    /\ pc = "match"
    /\ Cmp(settled, k) = "Greater"
    /\ IF variant = "quickselect_unchecked" /\ debug
          /\ ~(settled < slen /\ settled > 0)
       THEN /\ pc' = "panic"
            /\ err' = [kind |-> "debug_assert", len |-> slen, idx |-> settled]
            /\ UNCHANGED <<arr, lo, slen, k>>
       ELSE /\ Narrow(0, settled, k)
            /\ err' = err
    /\ UNCHANGED <<pivot_index, last_index, i, j, settled, ret, s0, k0,
                   get_pivot, variant, debug, lens, iter0, strayed>>

----------------------------------------------------------------------------

Next ==
    \/ Entry
    \/ CallGetPivot
    \/ CheckPivot
    \/ PartitionBegin
    \/ PartitionScan
    \/ PartitionEnd
    \/ MatchEqual
    \/ MatchLess
    \/ MatchGreater

Spec == Init /\ [][Next]_vars

\* the call runs on one thread without suspension: a step that can be taken is taken
FairSpec == Spec /\ WF_vars(Next)

----------------------------------------------------------------------------
(* Vocabulary of the properties *)

\* number of slots of a holding a value below / not above v
Below(a, v) == Cardinality({x \in DOMAIN a : a[x] < v})

UpTo(a, v) == Cardinality({x \in DOMAIN a : a[x] <= v})

\* the value at index r (0-based) of a sorted ascending
KthSmallest(a, r) == CHOOSE v \in Range(a) : Below(a, v) <= r /\ r < UpTo(a, v)

\* the multiset of the elements of a
BagOf(a) == [v \in Range(a) |-> Cardinality({x \in DOMAIN a : a[x] = v})]

\* the slots of arr inside the current slice
Window == (lo + 1)..(lo + slen)

Terminal == {"done", "panic", "ub"}

\* the preconditions of the call have held so far
ValidCall == k0 < Len(s0) /\ ~strayed

Reference == {"middle_index", "first_index", "last_index"}

----------------------------------------------------------------------------
\* C1: with a rank inside the slice and a strategy that stays inside its
\* window (the three reference strategies always do), the call never fails
\* and the value it returns is the k-th smallest of the input; rank 0 gives
\* the minimum and rank len - 1 the maximum.
C1_Correct ==
    /\ get_pivot \in Reference \cup {"random"} => ~strayed
    /\ ValidCall =>
        /\ pc \notin {"panic", "ub"}
        /\ pc = "done" =>
            /\ arr[ret + 1] = KthSmallest(s0, k0)
            /\ k0 = 0 => \A x \in DOMAIN s0 : arr[ret + 1] <= s0[x]
            /\ k0 = Len(s0) - 1 => \A x \in DOMAIN s0 : arr[ret + 1] >= s0[x]

C1_Witness ==
    /\ pc = "done"
    /\ ValidCall
    /\ s0 = <<4, 2, 5, 1, 3>>
    /\ k0 = 2
    /\ get_pivot = "middle_index"
    /\ Len(lens) = 2
    /\ arr[ret + 1] = 3

\* C2: the returned reference designates slot k of the original slice: the
\* offset of the window plus the window-relative rank is the original rank
\* throughout, and on return slot k holds the k-th smallest value.
C2_InPlace ==
    /\ lo + k = k0
    /\ pc = "done" =>
        /\ ret = k0
        /\ arr[k0 + 1] = KthSmallest(s0, k0)
        /\ s0 = <<4, 2, 5, 1, 3>> => arr = <<2, 1, 3, 4, 5>>

C2_Witness ==
    /\ pc = "done"
    /\ Len(s0) >= 3
    /\ lo > 0
    /\ k < k0
    /\ lo + slen < Len(s0)
    /\ arr[k0 + 1] # s0[k0 + 1]

\* C3: unless undefined behaviour was triggered, the multiset of the elements
\* is the one on entry in every state of the call: between any two swaps, on
\* return and on a panic.
C3_Multiset == pc # "ub" => BagOf(arr) = BagOf(s0)

C3_Witness ==
    /\ pc = "scan"
    /\ variant = "quickselect"
    /\ arr # s0
    /\ arr # iter0
    /\ j > 0
    /\ \E x, y \in DOMAIN s0 : x # y /\ s0[x] = s0[y]

\* C4: checked quickselect with k >= len panics with "index out of bounds"
\* carrying len and k, before get_pivot is called and before any swap.
C4_OutOfBounds ==
    (variant = "quickselect" /\ k0 >= Len(s0)) =>
        /\ pc \in {"entry", "panic"}
        /\ arr = s0
        /\ lens = <<>>
        /\ pc = "panic" =>
            err = [kind |-> "index out of bounds", len |-> Len(s0), idx |-> k0]

C4_Witness ==
    /\ variant = "quickselect"
    /\ pc = "panic"
    /\ s0 = <<1, 2, 3>>
    /\ k0 = 3
    /\ err = [kind |-> "index out of bounds", len |-> 3, idx |-> 3]

\* C5: once get_pivot has returned an index >= the length of the current
\* window, checked quickselect panics with "invalid pivot" carrying that
\* window's length and that index, and the partition step is not entered:
\* the storage is as it was when the iteration began.
C5_InvalidPivot ==
    (variant = "quickselect" /\ strayed) =>
        /\ pc \in {"check_pivot", "panic"}
        /\ pivot_index >= slen
        /\ arr = iter0
        /\ pc = "panic" =>
            err = [kind |-> "invalid pivot", len |-> slen, idx |-> pivot_index]

C5_Witness ==
    /\ variant = "quickselect"
    /\ pc = "panic"
    /\ err.kind = "invalid pivot"
    /\ err.len < Len(s0)
    /\ err.idx > err.len
    /\ Len(lens) >= 2
    /\ arr # s0

\* C6 as stated: for a one-element slice and k = 0 the call ends by returning
\* that element, whatever index the strategy returns.
C6_AnyIndex ==
    (Len(s0) = 1 /\ k0 = 0 /\ pc \in Terminal) =>
        /\ pc = "done"
        /\ arr[ret + 1] = s0[1]
        /\ arr = s0

\* C6, amended: for a one-element slice and k = 0 the storage is never
\* changed by checked quickselect; with a strategy that returns index 0 (the
\* reference strategies do) the call returns the element after one get_pivot
\* call; with a returned index >= 1 checked quickselect panics with
\* "invalid pivot".
C6_Single ==
    (Len(s0) = 1 /\ k0 = 0) =>
        /\ pc # "ub" => arr = s0
        /\ get_pivot \in Reference => ~strayed
        /\ ~strayed =>
            /\ pc \notin {"panic", "ub"}
            /\ pc = "done" => (ret = 0 /\ arr[1] = s0[1] /\ lens = <<1>>)
        /\ (strayed /\ variant = "quickselect") =>
            /\ pc \in {"check_pivot", "panic"}
            /\ pc = "panic" => err = [kind |-> "invalid pivot", len |-> 1, idx |-> pivot_index]

C6_Witness ==
    /\ Len(s0) = 1
    /\ k0 = 0
    /\ pc = "done"
    /\ get_pivot = "faulty"
    /\ arr = s0

\* C7: the slice given to each get_pivot call is strictly shorter than the
\* one given to the call before, so there are at most len(S) calls; and with
\* a rank inside the slice and a strategy that stays inside its window the
\* call returns.
C7_Shrinks ==
    /\ Len(lens) <= Len(s0)
    /\ \A x \in DOMAIN lens :
        /\ lens[x] >= 1
        /\ x > 1 => lens[x] <= lens[x - 1] - 1
    /\ pc \in {"get_pivot"} /\ lens # <<>> => slen < lens[Len(lens)]

C7_Terminates ==
    /\ []C7_Shrinks
    /\ <>(k0 >= Len(s0) \/ strayed \/ pc = "done")

C7_Witness ==
    /\ pc = "done"
    /\ ValidCall
    /\ Len(lens) = Len(s0)
    /\ Len(s0) >= 3

\* C8: in both variants, with a rank inside the slice and a strategy that
\* stays inside its window, the window is never empty and 0 <= k < its
\* length; if the settled position p < k the next window is what lies
\* strictly after p and k becomes k - p - 1 >= 0, if p > k it is the p >= 1
\* elements before p and k is unchanged.
C8_State ==
    ValidCall =>
        /\ pc # "ub"
        /\ slen >= 1
        /\ 0 <= k /\ k < slen
        /\ lo + slen <= Len(s0)
        /\ pc = "match" =>
            /\ settled < k => (slen - settled - 1 >= 1 /\ k - settled - 1 >= 0)
            /\ settled > k => settled >= 1

C8_Step ==
    (ValidCall /\ pc = "match" /\ settled # k) =>
        /\ pc' = "get_pivot"
        /\ settled < k =>
            (lo' = lo + settled + 1 /\ slen' = slen - settled - 1 /\ k' = k - settled - 1)
        /\ settled > k => (lo' = lo /\ slen' = settled /\ k' = k)

C8_Window == []C8_State /\ [][C8_Step]_vars

C8_Witness ==
    /\ ValidCall
    /\ variant = "quickselect_unchecked"
    /\ ~debug
    /\ pc = "get_pivot"
    /\ lo > 0
    /\ lo + slen < Len(s0)

\* C9: the partition step, given an index inside the window, returns an index
\* i of the window where the former pivot value now is; what lies before i
\* is <= that value and what lies after i is > it.
C9_Partition ==
    pc = "match" =>
        LET pivot == At(iter0, lo, pivot_index) IN
        /\ 0 <= settled /\ settled < slen
        /\ At(arr, lo, settled) = pivot
        /\ \A x \in 0..(slen - 1) :
            /\ x < settled => At(arr, lo, x) <= pivot
            /\ x > settled => At(arr, lo, x) > pivot

C9_Witness ==
    /\ pc = "match"
    /\ slen >= 3
    /\ settled = 1
    /\ pivot_index # settled
    /\ At(arr, lo, 0) = At(arr, lo, 1)
    /\ arr # iter0

\* C10: slots outside the current window are never written again, what was
\* discarded to the left is <= and what was discarded to the right is >=
\* everything in the window, and on return every slot before k holds a value
\* <= the one at k and every slot after k a value >= it.
C10_State ==
    pc # "ub" =>
        /\ \A x \in DOMAIN arr : \A y \in Window :
            /\ x < lo + 1 => arr[x] <= arr[y]
            /\ x > lo + slen => arr[x] >= arr[y]
        /\ pc = "done" =>
            \A x \in DOMAIN arr :
                /\ x < k0 + 1 => arr[x] <= arr[k0 + 1]
                /\ x > k0 + 1 => arr[x] >= arr[k0 + 1]

C10_Step ==
    (pc # "ub" /\ pc' # "ub") =>
        \A x \in DOMAIN arr : x \notin Window => arr'[x] = arr[x]

C10_Partitioned == []C10_State /\ [][C10_Step]_vars

C10_Witness ==
    /\ pc = "done"
    /\ Len(s0) >= 3
    /\ k0 = 1
    /\ Len(lens) >= 3
    /\ arr # s0

====
